---- MODULE Spec2Model ----
(***************************************************************************)
(* Model of the ship dashboard: the List Screen (ShipTable, Table.tsx) and *)
(* the Detail Screen (ShipDetails, detailPage.tsx).                        *)
(*                                                                         *)
(* Strings are sequences of UTF-16 code units (ASCII range), so that       *)
(* toLowerCase, includes and the relational operators are computed, not    *)
(* assumed.  A nullable field is Null or a value.  Each screen's React     *)
(* state cells are variables; a cell keeps its last value while the        *)
(* component is unmounted and is re-initialised by the next mount.         *)
(*                                                                         *)
(* Spec is the List Screen as the active route, SpecDetail the Detail      *)
(* Screen; the screens share no state.  The row-selection cells            *)
(* (selectedShip, drawerOpened) feed no derivation and are left out.       *)
(***************************************************************************)
EXTENDS Integers, Sequences, FiniteSets

\* ------------------------------------------------------------------ bounds
MaxShips == 21          \* largest collection the ships endpoint returns
MaxSearchLen == 2       \* longest search text typed
MaxFetches == 2         \* fetches the Detail Screen issues in one activation

\* --------------------------------------------------------- program constants
pageSize == 10

Null == <<>>            \* null / absent value; a present value v is <<v>>

\* --------------------------------------------------------- strings (JS)
\* "A" = 65, "B" = 66, "a" = 97, "b" = 98, "0".."9" = 48..57
SearchAlphabet == {65, 98}

RECURSIVE StringsUpTo(_)
StringsUpTo(n) ==
    IF n = 0 THEN {<<>>}
    ELSE LET shorter == StringsUpTo(n - 1)
         IN  shorter \cup {Append(s, c) : s \in shorter, c \in SearchAlphabet}

SearchTexts == StringsUpTo(MaxSearchLen)

\* String.prototype.toLowerCase on one ASCII code unit
LowerUnit(c) == IF c \in 65..90 THEN c + 32 ELSE c

toLowerCase(s) == [i \in 1..Len(s) |-> LowerUnit(s[i])]

\* String.prototype.includes: scan the start positions left to right
RECURSIVE IncludesFrom(_, _, _)
IncludesFrom(s, t, k) ==
    IF k + Len(t) > Len(s) THEN FALSE
    ELSE IF SubSeq(s, k + 1, k + Len(t)) = t THEN TRUE
    ELSE IncludesFrom(s, t, k + 1)

includes(s, t) == IncludesFrom(s, t, 0)

\* s < t on strings: lexicographic order of the code units
RECURSIVE StrLess(_, _)
StrLess(s, t) ==
    IF t = <<>> THEN FALSE
    ELSE IF s = <<>> THEN TRUE
    ELSE IF s[1] # t[1] THEN s[1] < t[1]
    ELSE StrLess(Tail(s), Tail(t))

\* ------------------------------------------------------ the remote service
BaseNames == << <<65, 98>>, <<98, 66>>, <<97, 65>> >>     \* "Ab", "bB", "aA"
ShipTypes == << <<98>>, <<65>> >>                          \* "b", "A"

\* the i-th record the ships endpoint holds (type Ship, Table.tsx)
ShipAt(i) ==
    [ ship_id    |-> i,
      ship_name  |-> BaseNames[(i % 3) + 1] \o <<48 + (i % 10)>>,
      ship_type  |-> ShipTypes[(i % 2) + 1],
      year_built |-> IF i % 4 = 0 THEN Null ELSE <<2000 + ((i * 7) % 5)>>,
      missions   |-> [k \in 1..((i * 3) % 4) |-> k] ]

\* a response body of GET /v3/ships: the first n records
ShipsResponse(n) == [i \in 1..n |-> ShipAt(i)]

\* the sizes of the responses tried
ResponseSizes == 0..MaxShips

SortableField == {"ship_name", "ship_type", "year_built", "missions"}

\* ------------------------------------------------------------------- state
VARIABLES
    \* List Screen (ShipTable)
    listMounted,    \* the List Screen is the active route
    ships,          \* useState<Ship[]>([])
    loading,        \* useState(true)
    search,         \* useState("")
    sortBy,         \* useState<SortableField | null>(null)
    reverseSort,    \* useState(false)
    currentPage,    \* useState(1)
    listPending,    \* fetchShips calls of this activation not yet settled
    listIssued,     \* fetchShips calls made by this activation
    lastEvent,      \* the last List Screen event: what, the page it found, the column
    \* Detail Screen (ShipDetails)
    detailMounted,  \* the Detail Screen is the active route
    shipId,         \* useParams().shipId
    ship,           \* useState<Ship | null>(null)
    detailLoading,  \* useState(true)
    detailFetches,  \* fetchShip calls of this activation not yet settled
    detailIssued,   \* fetchShip calls made by this activation
    lastSettled     \* the last fetchShip call settled: its identifier, number, outcome

listVars == <<listMounted, ships, loading, search, sortBy, reverseSort,
              currentPage, listPending, listIssued, lastEvent>>

detailVars == <<detailMounted, shipId, ship, detailLoading, detailFetches,
                detailIssued, lastSettled>>

vars == <<listVars, detailVars>>

Event(op, page, field) == [op |-> op, page |-> page, field |-> field]

\* ------------------------------------------------------ List Data Pipeline
\* the filter without toLowerCase on the search text
RECURSIVE FilterShipsRawSearch(_, _)
FilterShipsRawSearch(list, text) ==
    IF list = <<>> THEN <<>>
    ELSE LET rest == FilterShipsRawSearch(Tail(list), text)
         IN  IF includes(toLowerCase(Head(list).ship_name), text)
             THEN <<Head(list)>> \o rest
             ELSE rest

\* ships.filter(ship => ship.ship_name.toLowerCase().includes(search.toLowerCase()))
RECURSIVE FilterShips(_, _)
FilterShips(list, text) ==
    IF list = <<>> THEN <<>>
    ELSE LET rest == FilterShips(Tail(list), text)
         IN  IF includes(toLowerCase(Head(list).ship_name), toLowerCase(text))
             THEN <<Head(list)>> \o rest
             ELSE rest

\* sortBy === "missions" ? a.missions.length : a[sortBy] ?? ""
SortValue(row, field) ==
    CASE field = "missions"   -> [t |-> "number", n |-> Len(row.missions), s |-> <<>>]
      [] field = "ship_name"  -> [t |-> "string", n |-> 0, s |-> row.ship_name]
      [] field = "ship_type"  -> [t |-> "string", n |-> 0, s |-> row.ship_type]
      [] field = "year_built" ->
            IF row.year_built = Null
            THEN [t |-> "string", n |-> 0, s |-> <<>>]
            ELSE [t |-> "number", n |-> row.year_built[1], s |-> <<>>]

\* ToNumber of a string: "" is 0, a string of letters is NaN
IsNaN(v) == v.t = "string" /\ v.s # <<>>
ToNumber(v) == IF v.t = "number" THEN v.n ELSE 0

\* valA > valB
Greater(a, b) ==
    IF a.t = "string" /\ b.t = "string" THEN StrLess(b.s, a.s)
    ELSE IF IsNaN(a) \/ IsNaN(b) THEN FALSE
    ELSE ToNumber(a) > ToNumber(b)

\* the comparator handed to data.sort
Compare(a, b, field, reversed) ==
    LET valA == SortValue(a, field)
        valB == SortValue(b, field)
    IN  IF valA = valB THEN 0
        ELSE IF reversed
             THEN (IF Greater(valA, valB) THEN -1 ELSE 1)
             ELSE (IF Greater(valA, valB) THEN 1 ELSE -1)

\* Array.prototype.sort is stable: x goes behind every element not after it
InsertSorted(sorted, x, field, reversed) ==
    LET k == Cardinality({i \in 1..Len(sorted) :
                            Compare(sorted[i], x, field, reversed) <= 0})
    IN  SubSeq(sorted, 1, k) \o <<x>> \o SubSeq(sorted, k + 1, Len(sorted))

RECURSIVE SortShips(_, _, _)
SortShips(list, field, reversed) ==
    IF list = <<>> THEN <<>>
    ELSE InsertSorted(SortShips(SubSeq(list, 1, Len(list) - 1), field, reversed),
                      list[Len(list)], field, reversed)

\* useMemo(..., [ships, search, sortBy, reverseSort])
FilteredOf(list, text, field, reversed) ==
    LET data == FilterShips(list, text)
    IN  IF field # Null THEN SortShips(data, field[1], reversed) ELSE data

filteredData == FilteredOf(ships, search, sortBy, reverseSort)

\* Math.floor in place of Math.ceil
FloorDiv(n, d) == n \div d

\* Math.ceil(n / pageSize)
CeilDiv(n, d) == IF n % d = 0 THEN n \div d ELSE (n \div d) + 1

totalPages == CeilDiv(Len(filteredData), pageSize)

\* Array.prototype.slice(begin, end) for begin, end >= 0
Slice(list, begin, end) ==
    LET from == IF begin > Len(list) THEN Len(list) ELSE begin
        to   == IF end > Len(list) THEN Len(list) ELSE end
    IN  SubSeq(list, from + 1, to)

PageOf(list, page) == Slice(list, (page - 1) * pageSize, page * pageSize)

paginatedData == PageOf(filteredData, currentPage)

\* what the List Screen shows below the search box
ListView ==
    IF loading THEN "loader"
    ELSE IF Len(paginatedData) > 0 THEN "rows" ELSE "empty"

\* the Pagination control is rendered
PaginationShown == ~loading /\ Len(filteredData) > pageSize

\* ------------------------------------------------------ List Screen actions
\* the state cells as useState creates them, before any effect has run
ListIdle ==
    /\ listMounted = FALSE
    /\ ships = <<>>
    /\ loading = TRUE
    /\ search = <<>>
    /\ sortBy = Null
    /\ reverseSort = FALSE
    /\ currentPage = 1
    /\ listPending = 0
    /\ listIssued = 0
    /\ lastEvent = Event("none", 0, "")

\* the application opens on the List Screen: cells created, mount effect run
ListInit ==
    /\ listMounted = TRUE
    /\ ships = <<>>
    /\ loading = TRUE
    /\ search = <<>>
    /\ sortBy = Null
    /\ reverseSort = FALSE
    /\ currentPage = 1
    /\ listPending = 1
    /\ listIssued = 1
    /\ lastEvent = Event("mount", 0, "")

\* the route becomes the List Screen again: fresh cells, then the mount effect.
\* A fetchShips call of the earlier activation holds that activation's setters
\* and cannot reach the fresh cells, so it is no longer counted.
ListMount ==
    /\ ~listMounted
    /\ listMounted' = TRUE
    /\ ships' = <<>>
    /\ loading' = TRUE
    /\ search' = <<>>
    /\ sortBy' = Null
    /\ reverseSort' = FALSE
    /\ currentPage' = 1
    /\ listPending' = 1
    /\ listIssued' = 1
    /\ lastEvent' = Event("mount", 0, "")
    /\ UNCHANGED detailVars

\* navigation away (a ship link, the browser's back button)
ListUnmount ==
    /\ listMounted
    /\ listMounted' = FALSE
    /\ lastEvent' = Event("unmount", 0, "")
    /\ UNCHANGED <<ships, loading, search, sortBy, reverseSort, currentPage,
                   listPending, listIssued>>
    /\ UNCHANGED detailVars

\* fetchShips: the response arrives and parses; setShips(data), setLoading(false)
FetchShipsResolved(n) ==
    /\ listPending > 0
    /\ ships' = ShipsResponse(n)
    /\ loading' = FALSE
    /\ listPending' = listPending - 1
    /\ lastEvent' = Event("fetched", 0, "")
    /\ UNCHANGED <<listMounted, search, sortBy, reverseSort, currentPage, listIssued>>
    /\ UNCHANGED detailVars

\* fetchShips: fetch or res.json() rejects; console.error, setLoading(false)
FetchShipsRejected ==
    /\ listPending > 0
    /\ loading' = FALSE
    /\ listPending' = listPending - 1
    /\ lastEvent' = Event("failed", 0, "")
    /\ UNCHANGED <<listMounted, ships, search, sortBy, reverseSort, currentPage,
                   listIssued>>
    /\ UNCHANGED detailVars

\* TextInput onChange, without the page reset
OnSearchChangeKeepPage(value) ==
    /\ listMounted
    /\ value # search
    /\ search' = value
    /\ lastEvent' = Event("search", currentPage, "")
    /\ UNCHANGED <<listMounted, ships, loading, sortBy, reverseSort, currentPage,
                   listPending, listIssued>>
    /\ UNCHANGED detailVars

\* TextInput onChange, resetting the page only when the box is cleared
OnSearchChangeResetOnClear(value) ==
    /\ listMounted
    /\ value # search
    /\ search' = value
    /\ currentPage' = IF value = <<>> THEN 1 ELSE currentPage
    /\ lastEvent' = Event("search", currentPage, "")
    /\ UNCHANGED <<listMounted, ships, loading, sortBy, reverseSort,
                   listPending, listIssued>>
    /\ UNCHANGED detailVars

\* TextInput onChange
OnSearchChange(value) ==
    /\ listMounted
    /\ value # search
    /\ search' = value
    /\ currentPage' = 1
    /\ lastEvent' = Event("search", currentPage, "")
    /\ UNCHANGED <<listMounted, ships, loading, sortBy, reverseSort,
                   listPending, listIssued>>
    /\ UNCHANGED detailVars

\* setSorting that also goes back to the first page
setSortingResetPage(field) ==
    /\ listMounted
    /\ ~loading
    /\ LET reversed == IF <<field>> = sortBy THEN ~reverseSort ELSE FALSE
       IN  /\ reverseSort' = reversed
           /\ sortBy' = <<field>>
    /\ currentPage' = 1
    /\ lastEvent' = Event("sort", 0, field)
    /\ UNCHANGED <<listMounted, ships, loading, search, listPending, listIssued>>
    /\ UNCHANGED detailVars

\* setSorting that toggles whatever column is clicked
setSortingAlwaysToggle(field) ==
    /\ listMounted
    /\ ~loading
    /\ LET reversed == ~reverseSort
       IN  /\ reverseSort' = reversed
           /\ sortBy' = <<field>>
    /\ lastEvent' = Event("sort", 0, field)
    /\ UNCHANGED <<listMounted, ships, loading, search, currentPage, listPending,
                   listIssued>>
    /\ UNCHANGED detailVars

\* setSorting(field), from a column header (rendered once loading is over)
setSorting(field) ==
    /\ listMounted
    /\ ~loading
    /\ LET reversed == IF <<field>> = sortBy THEN ~reverseSort ELSE FALSE
       IN  /\ reverseSort' = reversed
           /\ sortBy' = <<field>>
    /\ lastEvent' = Event("sort", 0, field)
    /\ UNCHANGED <<listMounted, ships, loading, search, currentPage, listPending,
                   listIssued>>
    /\ UNCHANGED detailVars

\* Pagination onChange={setCurrentPage}: the control offers pages 1..total
setCurrentPage(page) ==
    /\ listMounted
    /\ PaginationShown
    /\ page \in 1..totalPages
    /\ currentPage' = page
    /\ lastEvent' = Event("page", 0, "")
    /\ UNCHANGED <<listMounted, ships, loading, search, sortBy, reverseSort,
                   listPending, listIssued>>
    /\ UNCHANGED detailVars

\* ----------------------------------------------------- the detail endpoint
KnownIds == {1, 2}          \* identifiers the service holds a ship for
RouteIds == {1, 2, 3}       \* identifiers the route is opened with

\* response bodies of GET /v3/ships/{id}, as res.json() returns them
ShipBody(id) ==
    [ ship_id |-> <<id>>, roles |-> << <<98>> >>, missions |-> <<id>>, error |-> Null ]
ErrorBody ==
    [ ship_id |-> Null, roles |-> Null, missions |-> Null, error |-> <<404>> ]

\* how a request for id can end: the fetch rejects, the body does not parse,
\* or a body is parsed (the record; for an unknown id the service's error
\* object, or null)
Outcomes(id) ==
    {[kind |-> "rejected", body |-> Null], [kind |-> "unparsable", body |-> Null]}
    \cup (IF id \in KnownIds
          THEN {[kind |-> "record", body |-> <<ShipBody(id)>>]}
          ELSE {[kind |-> "error_body", body |-> <<ErrorBody>>],
                [kind |-> "null_body", body |-> Null]})

\* the outcomes that deliver no usable record
FailureKinds == {"rejected", "unparsable", "error_body", "null_body"}

NoneSettled == [id |-> 0, n |-> 0, kind |-> "none"]

\* what ShipDetails returns: the loader, "Ship not found", the field list;
\* ship.roles.map and ship.missions.map throw on a body without these lists
DetailView ==
    IF detailLoading THEN "loader"
    ELSE IF ship = Null THEN "not found"
    ELSE IF ship[1].roles = Null \/ ship[1].missions = Null THEN "render error"
    ELSE "details"

\* ---------------------------------------------------- Detail Screen actions
DetailIdle ==
    /\ detailMounted = FALSE
    /\ shipId = 0
    /\ ship = Null
    /\ detailLoading = TRUE
    /\ detailFetches = {}
    /\ detailIssued = 0
    /\ lastSettled = NoneSettled

\* the Detail Screen opened for some identifier: cells created, effect run
DetailInit ==
    /\ detailMounted = TRUE
    /\ shipId \in RouteIds
    /\ ship = Null
    /\ detailLoading = TRUE
    /\ detailFetches = {[id |-> shipId, n |-> 1]}
    /\ detailIssued = 1
    /\ lastSettled = NoneSettled

\* the route becomes the Detail Screen: fresh cells, then the effect
DetailMount(id) ==
    /\ ~detailMounted
    /\ detailMounted' = TRUE
    /\ shipId' = id
    /\ ship' = Null
    /\ detailLoading' = TRUE
    /\ detailFetches' = {[id |-> id, n |-> 1]}
    /\ detailIssued' = 1
    /\ lastSettled' = NoneSettled
    /\ UNCHANGED listVars

\* navigate(-1), or any other navigation away
DetailUnmount ==
    /\ detailMounted
    /\ detailMounted' = FALSE
    /\ UNCHANGED <<shipId, ship, detailLoading, detailFetches, detailIssued,
                   lastSettled>>
    /\ UNCHANGED listVars

\* the route parameter changes under the mounted screen: the [shipId] effect
\* runs again and calls fetchShip
OnShipIdChange(id) ==
    /\ detailMounted
    /\ id # shipId
    /\ detailIssued < MaxFetches
    /\ shipId' = id
    /\ detailFetches' = detailFetches \cup {[id |-> id, n |-> detailIssued + 1]}
    /\ detailIssued' = detailIssued + 1
    /\ UNCHANGED <<detailMounted, ship, detailLoading, lastSettled>>
    /\ UNCHANGED listVars

\* fetchShip: one outstanding call settles; setShip(data) if a body was parsed,
\* console.error otherwise, setLoading(false) in either case
FetchShipSettled(f, outcome) ==
    /\ f \in detailFetches
    /\ outcome \in Outcomes(f.id)
    /\ ship' = IF outcome.kind \in {"rejected", "unparsable"} THEN ship
               ELSE outcome.body
    /\ detailLoading' = FALSE
    /\ detailFetches' = detailFetches \ {f}
    /\ lastSettled' = [id |-> f.id, n |-> f.n, kind |-> outcome.kind]
    /\ UNCHANGED <<detailMounted, shipId, detailIssued>>
    /\ UNCHANGED listVars

\* ---------------------------------------------------------- specifications
AllOutcomes == UNION {Outcomes(id) : id \in RouteIds}
AllFetches == {[id |-> id, n |-> n] : id \in RouteIds, n \in 1..MaxFetches}

\* the List Screen is the active route
Init == ListInit /\ DetailIdle

Next ==
    \/ ListMount
    \/ ListUnmount
    \/ \E n \in ResponseSizes : FetchShipsResolved(n)
    \/ FetchShipsRejected
    \/ \E value \in SearchTexts : OnSearchChange(value)
    \/ \E field \in SortableField : setSorting(field)
    \/ \E page \in 1..CeilDiv(MaxShips, pageSize) : setCurrentPage(page)

Spec == Init /\ [][Next]_vars

\* the Detail Screen is the active route
InitDetail == ListIdle /\ DetailInit

NextDetail ==
    \/ \E id \in RouteIds : DetailMount(id)
    \/ DetailUnmount
    \/ \E id \in RouteIds : OnShipIdChange(id)
    \/ \E f \in AllFetches, outcome \in AllOutcomes : FetchShipSettled(f, outcome)

SpecDetail == InitDetail /\ [][NextDetail]_vars

\* ------------------------------------------------------------------ claims
IsUpper(c) == c \in 65..90

\* two code units are the same letter, whatever their case
SameLetter(c, d) ==
    \/ c = d
    \/ IsUpper(c) /\ d = c + 32
    \/ IsUpper(d) /\ c = d + 32

\* name contains text as a case-insensitive substring
ContainsIgnoringCase(name, text) ==
    \E k \in 0..(Len(name) - Len(text)) :
        \A j \in 1..Len(text) : SameLetter(name[k + j], text[j])

MatchingShips(list, text) ==
    SelectSeq(list, LAMBDA r : ContainsIgnoringCase(r.ship_name, text))

IdsOf(list) == {list[i].ship_id : i \in 1..Len(list)}

\* the same records, each once, in some order
SameRows(a, b) == Len(a) = Len(b) /\ IdsOf(a) = IdsOf(b)

RECURSIVE PagesUpTo(_, _)
PagesUpTo(list, k) ==
    IF k = 0 THEN <<>> ELSE PagesUpTo(list, k - 1) \o PageOf(list, k)

\* C1: whenever the filtered collection is non-empty, the current page
\* addresses at least one of its rows: 1 <= currentPage <= ceil(count / 10).
C1_PageAddressesRow ==
    LET count == Len(filteredData)
    IN  count > 0 =>
            /\ currentPage >= 1
            /\ (currentPage - 1) * pageSize < count
            /\ Len(paginatedData) >= 1

\* C1 witness: a search change found the screen on a later page and left a
\* non-empty collection of at most one page.
C1_Witness ==
    /\ lastEvent.op = "search"
    /\ lastEvent.page > 1
    /\ Len(filteredData) \in 1..pageSize

\* C2: once a screen is deactivated, no fetch completion writes the fetched
\* data or the loading flag into its state.
C2_DeactivatedScreenUntouched ==
    [][ /\ (~listMounted /\ ~listMounted') => UNCHANGED <<ships, loading>>
        /\ (~detailMounted /\ ~detailMounted') => UNCHANGED <<ship, detailLoading>>
      ]_vars

\* C3: each screen has at most one fetch outstanding at any time, and the
\* List Screen issues at most one fetch per activation.
C3_OneFetchOutstanding ==
    /\ listPending <= 1
    /\ listIssued <= 1
    /\ Cardinality(detailFetches) <= 1

\* C4: while the fetch for the present identifier is outstanding, the Detail
\* Screen is loading and shows no earlier record as ready.
C4_LoadingUntilFetched ==
    (detailMounted /\ \E f \in detailFetches : f.n = detailIssued)
        => (detailLoading /\ DetailView = "loader")

\* C5: after a fetch that ended in failure the loading flag is cleared and no
\* data is rendered: "not found" on the Detail Screen, the empty table on the
\* List Screen, and no failure escapes.
C5_FailureShowsNoData ==
    /\ lastEvent.op = "failed" => (~loading /\ ListView = "empty")
    /\ lastSettled.kind \in FailureKinds
           => (~detailLoading /\ DetailView = "not found")

\* C6: every change of the search text sets the current page to 1.
C6_SearchResetsPage ==
    [][search' # search => currentPage' = 1]_vars

\* C6 witness: a search change found the screen on a later page of a sorted,
\* reversed table and left it on page 1.
C6_Witness ==
    /\ lastEvent.op = "search"
    /\ lastEvent.page > 1
    /\ sortBy # Null
    /\ reverseSort
    /\ currentPage = 1

\* C7: a sort click changes the sort key and direction only: the current page,
\* the search text, the source collection and every other cell stay as they
\* were.
C7_SortKeepsPage ==
    [][lastEvent'.op = "sort" =>
          /\ UNCHANGED <<currentPage, search, ships>>
          /\ UNCHANGED <<listMounted, loading, listPending, listIssued>>
      ]_vars

\* C7 witness: a column was clicked while a later page of a searched table
\* was shown.
C7_Witness ==
    /\ lastEvent.op = "sort"
    /\ currentPage > 1
    /\ search # <<>>

\* C8: setSorting(field) makes field the sort key; the direction is toggled
\* if field was the sort key already and is ascending otherwise.
C8_SortToggles ==
    [][lastEvent'.op = "sort" =>
          /\ sortBy' = <<lastEvent'.field>>
          /\ reverseSort' = (IF sortBy = <<lastEvent'.field>>
                             THEN ~reverseSort ELSE FALSE)
      ]_vars

\* C8 witness: the column clicked was the sort key and the order is now
\* descending.
C8_Witness ==
    /\ lastEvent.op = "sort"
    /\ sortBy = <<lastEvent.field>>
    /\ reverseSort

\* C9: the page count is ceil(N / 10), page p holds rows (p-1)*10 .. p*10 - 1
\* (0-based) of the filtered, sorted collection, and pages 1..ceil(N / 10) put
\* end to end are that collection.
C9_PagesPartition ==
    LET rows == filteredData
        N == Len(rows)
        pages == totalPages
    IN  /\ pages * pageSize >= N
        /\ (pages = 0 /\ N = 0) \/ (pages >= 1 /\ (pages - 1) * pageSize < N)
        /\ \A p \in 1..pages :
              LET first == (p - 1) * pageSize
                  last == IF p * pageSize < N THEN p * pageSize ELSE N
              IN  PageOf(rows, p) = [i \in 1..(last - first) |-> rows[first + i]]
        /\ PagesUpTo(rows, pages) = rows

\* C9 witness: a sorted collection of three pages, the last one partly filled
\* and on screen.
C9_Witness ==
    /\ sortBy # Null
    /\ totalPages = 3
    /\ currentPage = 3
    /\ Len(paginatedData) \in 1..(pageSize - 1)

\* C10: the filtered collection holds exactly the records whose name contains
\* the search text case-insensitively; with no sort key they keep their order
\* in the source, and the empty text keeps them all.
C10_FilterByName ==
    LET expected == MatchingShips(ships, search)
    IN  /\ SameRows(filteredData, expected)
        /\ sortBy = Null => filteredData = expected
        /\ (sortBy = Null /\ search = <<>>) => filteredData = ships

\* C10 witness: an unsorted table filtered by a text with an upper-case letter
\* that keeps some rows and drops others.
C10_Witness ==
    /\ sortBy = Null
    /\ \E i \in 1..Len(search) : IsUpper(search[i])
    /\ Len(filteredData) > 0
    /\ Len(filteredData) < Len(ships)

====
